---- MODULE Spec2Model ----
(***************************************************************************)
(* Feelings World (run.py): the rule engine of GameRoot.  A deck of cards  *)
(* is drawn one at a time; decide(direction) applies the chosen branch of  *)
(* the presented card to the GameState, counts the turn, evaluates the     *)
(* ending and either shows the end screen or presents the next card.       *)
(*                                                                         *)
(* Numbers.  apply_effects computes stats[k] + 1.5 * roll(v) in Python     *)
(* floating point and stores the clamped result unrounded.  Every value    *)
(* that arises is a multiple of 1/2 (exact in binary floating point), so   *)
(* a stat value x is held here as the integer x * DEN: 50 is held as 100,  *)
(* 51.5 as 103.  Val(n) is the held form of the integer n.                 *)
(***************************************************************************)
EXTENDS Integers, Sequences, FiniteSets, TLC

VARIABLES
    stats,      \* GameRoot.stats: the deck's declared stat list
    max_turns,  \* GameRoot.max_turns
    cards,      \* GameRoot.cards: the list of CardDef
    gs,         \* GameRoot.gs: the GameState (stats, flags, turn, last_card_id)
    card_id,    \* GameRoot.card.card_id: the card the CardWidget presents
    picked,     \* the CardDef the last pick_card call returned (c of next_card)
    stage,      \* what GameRoot.stage holds: "card", "end" (EndScreen) or "empty"
    ending,     \* the ending the EndScreen on the stage was built with, or
                \* NoEnding
    raised,     \* the exception that left a handler (the app stops on it),
                \* NotRaised while there is none
    event       \* the last handler entered: its name, its direction argument
                \* and the card_id it found on the CardWidget

vars == <<stats, max_turns, cards, gs, card_id, picked, stage, ending, raised, event>>

None == "None"

(***************************************************************************)
(* Bounds of the model.                                                    *)
(***************************************************************************)
\* decide is not taken once gs.turn has reached MaxTurn (turn is unbounded
\* in the code: decisions resolved while the end screen is up keep counting)
MaxTurn == 4

(***************************************************************************)
(* Program constants.                                                      *)
(***************************************************************************)
NUM == 3        \* the amplification 1.5 = NUM / DEN
DEN == 2
START == 50     \* initial value of every stat
LO == 0         \* clamp's default bounds
HI == 100

Val(n) == n * DEN

\* the directions the handler may be called with: the CardWidget passes
\* "L" or "R"; decide(direction: str) itself accepts any string
Directions == {"L", "R", "X"}

\* the stats check_ending and show_end read, in the order of check_ending
CheckedStats == <<"joy", "sadness", "anger", "fear", "calm">>

Elems(seq) == {seq[i] : i \in 1..Len(seq)}

(***************************************************************************)
(* EffectValue = Union[int, List[int]]                                     *)
(***************************************************************************)
Fixed(d) == [range |-> FALSE, lo |-> d, hi |-> d]
Range(lo, hi) == [range |-> TRUE, lo |-> lo, hi |-> hi]
NoEffects == [k \in {} |-> Fixed(0)]

CardDef(id, weight, require_flags, forbid_flags, effects_left, effects_right, set_flags_left, set_flags_right, clear_flags_left, clear_flags_right) ==
    [id |-> id, weight |-> weight,
     require_flags |-> require_flags, forbid_flags |-> forbid_flags,
     effects_left |-> effects_left, effects_right |-> effects_right,
     set_flags_left |-> set_flags_left, set_flags_right |-> set_flags_right,
     clear_flags_left |-> clear_flags_left, clear_flags_right |-> clear_flags_right]

GameState(st) ==
    [stats |-> st, flags |-> {}, turn |-> 0, last_card_id |-> None]

(***************************************************************************)
(* The decks the game is started with (data/deck.json is read at run time; *)
(* GameRoot.__init__ takes any deck).  Each is a valid deck: its effect    *)
(* keys are declared stats, lo <= hi, max_turns > 0, cards non-empty.      *)
(***************************************************************************)
\* the five stats of check_ending, three cards gated by flags
DeckMain ==
    [stats |-> <<"joy", "sadness", "anger", "fear", "calm">>,
     max_turns |-> 3,
     cards |-> <<
        CardDef("a", 1, <<>>, <<>>,
                ("joy" :> Fixed(-40)), ("joy" :> Fixed(1)),
                <<>>, <<"resonance_ready">>, <<>>, <<>>),
        CardDef("b", 0, <<>>, <<"met">>,
                ("anger" :> Fixed(40)) @@ ("fear" :> Fixed(-40)),
                ("calm" :> Range(-1, 1)) @@ ("sadness" :> Fixed(2)),
                <<"met", "tmp">>, <<"met">>, <<"tmp">>, <<>>),
        CardDef("c", 2, <<"met">>, <<>>,
                NoEffects, ("sadness" :> Range(32, 34)),
                <<>>, <<>>, <<"met", "resonance_ready">>, <<>>)
     >>]

\* turn limit 3, one card without stat effects whose right branch sets
\* resonance_ready
DeckResonance ==
    [stats |-> <<"joy", "sadness", "anger", "fear", "calm">>,
     max_turns |-> 3,
     cards |-> <<
        CardDef("r", 1, <<>>, <<>>, NoEffects, NoEffects,
                <<>>, <<"resonance_ready">>, <<>>, <<>>)
     >>]

\* a deck that declares the single stat joy, one card with left effect -40
DeckJoy ==
    [stats |-> <<"joy">>,
     max_turns |-> 1,
     cards |-> <<
        CardDef("j", 1, <<>>, <<>>, ("joy" :> Fixed(-40)), NoEffects,
                <<>>, <<>>, <<>>, <<>>)
     >>]

\* the five stats, sadness declared before joy
DeckOrder ==
    [stats |-> <<"sadness", "joy", "anger", "fear", "calm">>,
     max_turns |-> 2,
     cards |-> <<
        CardDef("p", 1, <<>>, <<>>,
                ("sadness" :> Fixed(-40)) @@ ("joy" :> Fixed(-40)),
                ("sadness" :> Fixed(3)),
                <<>>, <<>>, <<>>, <<>>),
        CardDef("q", 1, <<>>, <<>>, NoEffects, ("calm" :> Fixed(-3)),
                <<>>, <<>>, <<>>, <<>>)
     >>]

\* a sixth declared stat
DeckHope ==
    [stats |-> <<"joy", "sadness", "anger", "fear", "calm", "hope">>,
     max_turns |-> 2,
     cards |-> <<
        CardDef("h", 1, <<>>, <<>>,
                ("hope" :> Fixed(-40)), ("hope" :> Range(33, 34)),
                <<>>, <<>>, <<>>, <<>>),
        CardDef("k", 1, <<>>, <<>>, NoEffects, ("joy" :> Fixed(40)),
                <<>>, <<"resonance_ready">>, <<>>, <<>>)
     >>]

\* two cards that share the id d and differ in their branches, and a flag
\* that one branch both sets and clears
DeckTwins ==
    [stats |-> <<"joy", "sadness", "anger", "fear", "calm">>,
     max_turns |-> 3,
     cards |-> <<
        CardDef("d", 1, <<>>, <<>>,
                ("joy" :> Fixed(2)), ("joy" :> Fixed(-2)),
                <<"tmp">>, <<"tmp">>, <<"tmp">>, <<>>),
        CardDef("d", 1, <<>>, <<>>,
                ("calm" :> Fixed(2)), ("calm" :> Fixed(-2)),
                <<>>, <<>>, <<>>, <<>>),
        CardDef("e", -1, <<>>, <<>>,
                ("fear" :> Fixed(4)), NoEffects,
                <<>>, <<>>, <<>>, <<>>)
     >>]

Decks == {DeckMain, DeckResonance, DeckJoy, DeckOrder, DeckHope, DeckTwins}

(***************************************************************************)
(* Decks that break a rule of the deck format: an effect on a stat the     *)
(* deck does not declare, a range with lo > hi, a turn limit of 0, no      *)
(* cards.  json.load and GameRoot.__init__ check none of the rules.        *)
(***************************************************************************)
DeckUndeclared ==
    [stats |-> <<"joy", "sadness", "anger", "fear", "calm">>,
     max_turns |-> 3,
     cards |-> <<
        CardDef("u", 1, <<>>, <<>>,
                ("hope" :> Fixed(-40)), ("joy" :> Range(-2, 2)),
                <<>>, <<>>, <<>>, <<>>),
        CardDef("v", 1, <<>>, <<>>,
                ("joy" :> Fixed(-40)), ("sadness" :> Range(1, 3)),
                <<>>, <<"resonance_ready">>, <<>>, <<>>)
     >>]

DeckBadRange ==
    [stats |-> <<"joy", "sadness", "anger", "fear", "calm">>,
     max_turns |-> 2,
     cards |-> <<
        CardDef("w", 1, <<>>, <<>>,
                ("joy" :> Range(2, 1)), ("fear" :> Fixed(40)),
                <<>>, <<>>, <<>>, <<>>)
     >>]

DeckZeroTurns ==
    [stats |-> <<"joy", "sadness", "anger", "fear", "calm">>,
     max_turns |-> 0,
     cards |-> <<
        CardDef("z", 1, <<>>, <<>>, NoEffects, ("calm" :> Fixed(1)),
                <<>>, <<>>, <<>>, <<>>)
     >>]

DeckNoCards ==
    [stats |-> <<"joy", "sadness", "anger", "fear", "calm">>,
     max_turns |-> 3,
     cards |-> <<>>]

InvalidDecks == {DeckUndeclared, DeckBadRange, DeckZeroTurns, DeckNoCards}

(***************************************************************************)
(* Pure functions.                                                         *)
(***************************************************************************)
Max(a, b) == IF a >= b THEN a ELSE b
Min(a, b) == IF a <= b THEN a ELSE b

\* clamp without its lower bound
clamp_no_floor(x, lo, hi) == Min(hi, x)

\* clamp(x, lo, hi) = max(lo, min(hi, x))
clamp(x, lo, hi) == Max(lo, Min(hi, x))

\* roll(v): the values random.randint(lo, hi) may return, or the fixed int
roll(v) == IF v.range THEN v.lo .. v.hi ELSE {v.lo}

\* the outcomes of the rolls of one apply_effects call: one delta per key
Rolls(effects) ==
    LET all == UNION {roll(effects[k]) : k \in DOMAIN effects}
    IN  {r \in [DOMAIN effects -> all] :
            \A k \in DOMAIN effects : r[k] \in roll(effects[k])}

\* apply_effects that rebuilds the stats from the start value
apply_effects_rebuilt(g, effects, rolled) ==
    [g EXCEPT !.stats =
        [k \in DOMAIN g.stats |->
            IF k \in DOMAIN effects
            THEN clamp(g.stats[k] + NUM * rolled[k], Val(LO), Val(HI))
            ELSE Val(START)]]

\* apply_effects with the deltas rolled: keys that are no stat are skipped
apply_effects(g, effects, rolled) ==
    [g EXCEPT !.stats =
        [k \in DOMAIN g.stats |->
            IF k \in DOMAIN effects
            THEN clamp(g.stats[k] + NUM * rolled[k], Val(LO), Val(HI))
            ELSE g.stats[k]]]

\* apply_flags with the two loops exchanged
apply_flags_set_last(g, set_flags, clear_flags) ==
    [g EXCEPT !.flags = (g.flags \ Elems(clear_flags)) \cup Elems(set_flags)]

\* apply_flags: add every set flag, then discard every clear flag
apply_flags(g, set_flags, clear_flags) ==
    [g EXCEPT !.flags = (g.flags \cup Elems(set_flags)) \ Elems(clear_flags)]

\* the translation key of a checked stat's endings
EndingName ==
    [joy |-> "JOY", sadness |-> "SADNESS", anger |-> "ANGER",
     fear |-> "FEAR", calm |-> "CALM", hope |-> "HOPE"]
LowEnding(k) == <<EndingName[k], "LOW">>
HighEnding(k) == <<EndingName[k], "HIGH">>
HARMONY == <<"HARMONY", "WIN">>
RESONANCE == <<"RESONANCE", "WIN">>
NoEnding == <<None, None>>
\* no exception has left a handler
NotRaised == <<None, "raise">>
KeyError == <<"KeyError", "raise">>
\* random.randint(lo, hi) with lo > hi
ValueError == <<"ValueError", "raise">>
\* random.choices on an empty pool
IndexError == <<"IndexError", "raise">>

\* the fail checks of check_ending from the i-th checked stat on: s[k] raises
\* KeyError when k is no key of the stats
RECURSIVE check_fails(_, _)
check_fails(s, i) ==
    IF i > Len(CheckedStats) THEN NoEnding
    ELSE LET k == CheckedStats[i]
         IN  IF k \notin DOMAIN s THEN KeyError
             ELSE IF s[k] <= Val(0) THEN LowEnding(k)
             ELSE IF s[k] >= Val(100) THEN HighEnding(k)
             ELSE check_fails(s, i + 1)

check_ending(g, maxt) ==
    LET fail == check_fails(g.stats, 1)
    IN  IF fail # NoEnding THEN fail
        ELSE IF g.turn >= maxt
             THEN IF "resonance_ready" \in g.flags THEN RESONANCE ELSE HARMONY
             ELSE NoEnding

\* eligible_cards: the cards that are not the last one and pass the flag
\* filter, or every card when there is none
Passes(c, g) ==
    /\ c.id # g.last_card_id
    /\ \A f \in Elems(c.require_flags) : f \in g.flags
    /\ \A f \in Elems(c.forbid_flags) : f \notin g.flags

\* eligible_cards without the skip of the last card
eligible_cards_repeat(cs, g) ==
    LET out == SelectSeq(cs, LAMBDA c :
                   /\ \A f \in Elems(c.require_flags) : f \in g.flags
                   /\ \A f \in Elems(c.forbid_flags) : f \notin g.flags)
    IN  IF out # <<>> THEN out ELSE cs

\* eligible_cards without the forbid_flags test
eligible_cards_no_forbid(cs, g) ==
    LET out == SelectSeq(cs, LAMBDA c :
                   /\ c.id # g.last_card_id
                   /\ \A f \in Elems(c.require_flags) : f \in g.flags)
    IN  IF out # <<>> THEN out ELSE cs

eligible_cards(cs, g) ==
    LET out == SelectSeq(cs, LAMBDA c : Passes(c, g))
    IN  IF out # <<>> THEN out ELSE cs

\* pick_card with the declared weights passed to random.choices as they are
pick_card_raw_weights(cs, g) ==
    LET pool == eligible_cards(cs, g)
        weights == [i \in 1..Len(pool) |-> pool[i].weight]
    IN  {pool[i] : i \in {j \in 1..Len(pool) : weights[j] > 0}}

\* pick_card: the cards random.choices may return from the pool, each
\* weighted max(1, weight)
pick_card(cs, g) ==
    LET pool == eligible_cards(cs, g)
        weights == [i \in 1..Len(pool) |-> Max(1, pool[i].weight)]
    IN  {pool[i] : i \in {j \in 1..Len(pool) : weights[j] > 0}}

(***************************************************************************)
(* Handlers.                                                               *)
(***************************************************************************)
\* next_card from game state g
next_card(g) ==
    \E c \in pick_card(cards, g) :
        /\ picked' = c
        /\ gs' = [g EXCEPT !.last_card_id = c.id]
        /\ card_id' = c.id

\* self.gs.turn += 1 left out
count_turn_skipped(g) == g

\* self.gs.turn += 1
count_turn(g) == [g EXCEPT !.turn = @ + 1]

\* the keys of the effects, among the stats, whose roll raises ValueError
BadRolls(g, effects) ==
    {k \in DOMAIN effects \cap DOMAIN g.stats : roll(effects[k]) = {}}

\* show_end from game state g: clears the stage, then reads the five stats
\* for the final line (KeyError when one is missing), then adds the EndScreen
show_end(g, e) ==
    /\ gs' = g
    /\ IF Elems(CheckedStats) \subseteq DOMAIN g.stats
       THEN /\ stage' = "end"
            /\ ending' = e
            /\ UNCHANGED raised
       ELSE /\ stage' = "empty"
            /\ raised' = KeyError
            /\ ending' = NoEnding
    /\ UNCHANGED <<card_id, picked>>

\* the index of the first card with the given id, 0 when there is none
first_card(cid) ==
    IF \E i \in 1..Len(cards) : cards[i].id = cid
    THEN CHOOSE i \in 1..Len(cards) :
            /\ cards[i].id = cid
            /\ \A j \in 1..(i - 1) : cards[j].id # cid
    ELSE 0

\* decide is the on_complete callback of every swipe animation started on the
\* card (CardWidget.on_touch_up); show_end removes the card from the stage
\* but cancels no animation and leaves card_id set, so the callback of a
\* swipe released before the ending was shown still arrives afterwards
decide(direction) ==
    /\ raised = NotRaised
    /\ gs.turn < MaxTurn
    /\ event' = [op |-> "decide", direction |-> direction, card |-> card_id]
    /\ UNCHANGED <<stats, max_turns, cards>>
    /\ IF card_id = None \/ first_card(card_id) = 0
       THEN UNCHANGED <<gs, card_id, picked, stage, ending, raised>>
       ELSE LET c == cards[first_card(card_id)]
                effects == IF direction = "L" THEN c.effects_left
                           ELSE c.effects_right
                set_flags == IF direction = "L" THEN c.set_flags_left
                             ELSE c.set_flags_right
                clear_flags == IF direction = "L" THEN c.clear_flags_left
                               ELSE c.clear_flags_right
            IN  IF BadRolls(gs, effects) # {}
                THEN \* roll raises inside apply_effects: the stats whose
                     \* keys come earlier in the dict are already stored
                     \E done \in SUBSET ((DOMAIN effects \cap DOMAIN gs.stats)
                                            \ BadRolls(gs, effects)) :
                     \E rolled \in Rolls([k \in done |-> effects[k]]) :
                        /\ gs' = apply_effects(gs, [k \in done |-> effects[k]], rolled)
                        /\ raised' = ValueError
                        /\ UNCHANGED <<card_id, picked, stage, ending>>
                ELSE
                \E rolled \in Rolls(effects) :
                  LET g1 == apply_effects(gs, effects, rolled)
                      g2 == apply_flags(g1, set_flags, clear_flags)
                      g3 == count_turn(g2)
                      e == check_ending(g3, max_turns)
                  IN  IF e = KeyError
                      THEN /\ gs' = g3
                           /\ raised' = KeyError
                           /\ UNCHANGED <<card_id, picked, stage, ending>>
                      ELSE IF e # NoEnding
                      THEN show_end(g3, e)
                      ELSE /\ next_card(g3)
                           /\ UNCHANGED <<stage, ending, raised>>

\* restart that builds the new GameState around the old flag set
restart_keeps_flags ==
    /\ raised = NotRaised
    /\ stage = "end"
    /\ event' = [op |-> "restart", direction |-> None, card |-> card_id]
    /\ next_card([GameState([k \in Elems(stats) |-> Val(START)])
                    EXCEPT !.flags = gs.flags])
    /\ stage' = "card"
    /\ ending' = NoEnding
    /\ UNCHANGED <<stats, max_turns, cards, raised>>

\* the restart button of the EndScreen
restart ==
    /\ raised = NotRaised
    /\ stage = "end"
    /\ event' = [op |-> "restart", direction |-> None, card |-> card_id]
    /\ next_card(GameState([k \in Elems(stats) |-> Val(START)]))
    /\ stage' = "card"
    /\ ending' = NoEnding
    /\ UNCHANGED <<stats, max_turns, cards, raised>>

\* GameRoot.__init__ on a deck of ds: the first next_card raises IndexError
\* when the deck has no cards
InitWith(ds) ==
    \E deck \in ds :
        LET g == GameState([k \in Elems(deck.stats) |-> Val(START)])
        IN  /\ stats = deck.stats
            /\ max_turns = deck.max_turns
            /\ cards = deck.cards
            /\ IF pick_card(deck.cards, g) = {}
               THEN /\ gs = g
                    /\ card_id = None
                    /\ picked = None
                    /\ raised = IndexError
               ELSE \E c \in pick_card(deck.cards, g) :
                    /\ picked = c
                    /\ gs = [g EXCEPT !.last_card_id = c.id]
                    /\ card_id = c.id
                    /\ raised = NotRaised
            /\ stage = "card"
            /\ ending = NoEnding
            /\ event = [op |-> "init", direction |-> None, card |-> None]

Init == InitWith(Decks)

\* the game started on a deck that breaks a rule of the deck format
InitInvalid == InitWith(InvalidDecks)

Next ==
    \/ \E direction \in Directions : decide(direction)
    \/ restart

Spec == Init /\ [][Next]_vars

SpecInvalid == InitInvalid /\ [][Next]_vars

(***************************************************************************)
(* Properties.                                                             *)
(***************************************************************************)
AtLow(g, k) == g.stats[k] <= Val(0)
AtHigh(g, k) == g.stats[k] >= Val(100)
AtBoundary(g, k) == AtLow(g, k) \/ AtHigh(g, k)

\* a decision was resolved by the last step (the turn was counted)
Resolved == event.op = "decide" /\ gs.turn > 0 /\ raised # ValueError

\* C1: in every reachable state, over every deck and every outcome of the
\* ranged rolls, every stat value lies in [0,100]
C1_StatsInRange ==
    \A k \in DOMAIN gs.stats : Val(LO) <= gs.stats[k] /\ gs.stats[k] <= Val(HI)

\* a decision whose amplified deltas left [0,100] on both sides has been
\* clamped to both bounds
C1_Witness ==
    /\ Resolved
    /\ \E k \in DOMAIN gs.stats : gs.stats[k] = Val(LO)
    /\ \E k \in DOMAIN gs.stats : gs.stats[k] = Val(HI)

\* C2: once the end screen is up, a further decide leaves stats, flags, turn
\* and last_card_id unchanged and produces no new ending; only restart leaves
\* the Ended state
C2_EndedIsTerminal ==
    [][(stage = "end" /\ event'.op = "decide")
          => (gs' = gs /\ ending' = ending /\ stage' = "end")]_vars

\* C3: after a resolved decision, when some stat is at a boundary and
\* turn >= max_turns, check_ending returns the boundary outcome of a stat at
\* a boundary, never HARMONY or RESONANCE
C3_EndingPriority ==
    (/\ Resolved
     /\ gs.turn >= max_turns
     /\ \E k \in DOMAIN gs.stats : AtBoundary(gs, k))
    => \E k \in DOMAIN gs.stats :
          \/ AtLow(gs, k) /\ check_ending(gs, max_turns) = LowEnding(k)
          \/ AtHigh(gs, k) /\ check_ending(gs, max_turns) = HighEnding(k)

\* the priority of C3 for the five stats check_ending reads: when one of
\* them is at a boundary the result is never HARMONY or RESONANCE
PriorityOfCheckedStats ==
    (/\ Resolved
     /\ gs.turn >= max_turns
     /\ \E k \in Elems(CheckedStats) \cap DOMAIN gs.stats : AtBoundary(gs, k))
    => check_ending(gs, max_turns) \notin {HARMONY, RESONANCE, NoEnding}

\* the state restart builds, before it presents a card
FreshState == GameState([k \in Elems(stats) |-> Val(START)])

\* C4 as stated: after restart the run state is the freshly constructed one:
\* turn 0, every declared stat 50, no flags, last_card_id none
C4_RestartFreshNoCard ==
    event.op = "restart" => gs = FreshState

\* C4 as amended: after restart turn is 0, every declared stat is 50, the
\* flag set is empty, and last_card_id is the id of the card restart
\* presents, drawn from the cards eligible in the fresh state
C4_RestartResets ==
    event.op = "restart" =>
        /\ gs.turn = 0
        /\ DOMAIN gs.stats = Elems(stats)
        /\ \A k \in Elems(stats) : gs.stats[k] = Val(START)
        /\ gs.flags = {}
        /\ gs.last_card_id = card_id
        /\ \E c \in pick_card(cards, FreshState) : c.id = gs.last_card_id
        /\ stage = "card"
        /\ ending = NoEnding

\* a restart has just replaced an ended run
C4_Witness ==
    /\ event.op = "restart"
    /\ stage = "card"
    /\ gs.turn = 0

\* the cards that passed the filter of eligible_cards when the card now
\* presented was picked after the last decision
FilteredAfterDecision ==
    SelectSeq(cards, LAMBDA c : Passes(c, [gs EXCEPT !.last_card_id = event.card]))

\* a decision was resolved by the last step and did not end the run
NonTerminal ==
    /\ Resolved
    /\ raised = NotRaised
    /\ check_ending(gs, max_turns) = NoEnding

\* C5: the card presented after a non-terminal decision differs from the
\* card decided on, unless no other card passes the flag filter; and
\* eligible_cards holds the card with id last_card_id only when the filtered
\* list is empty
C5_NoImmediateRepeat ==
    /\ (NonTerminal /\ FilteredAfterDecision # <<>>) => card_id # event.card
    /\ (\E c \in Elems(eligible_cards(cards, gs)) : c.id = gs.last_card_id)
          => SelectSeq(cards, LAMBDA c : Passes(c, gs)) = <<>>

\* a card other than the one decided on is presented although the card
\* decided on passes the require/forbid filter
C5_Witness ==
    /\ NonTerminal
    /\ FilteredAfterDecision # <<>>
    /\ card_id # event.card
    /\ \E i \in 1..Len(cards) :
          /\ cards[i].id = event.card
          /\ \A f \in Elems(cards[i].require_flags) : f \in gs.flags
          /\ \A f \in Elems(cards[i].forbid_flags) : f \notin gs.flags

\* the outcome of the first stat at a boundary, in the given order
RECURSIVE FirstBoundary(_, _, _)
FirstBoundary(g, order, i) ==
    IF i > Len(order) THEN NoEnding
    ELSE IF AtLow(g, order[i]) THEN LowEnding(order[i])
    ELSE IF AtHigh(g, order[i]) THEN HighEnding(order[i])
    ELSE FirstBoundary(g, order, i + 1)

\* C6: after a resolved decision, when a declared stat is at a boundary
\* check_ending ends the run with the outcome of the first such stat in the
\* deck's declared order
C6_DeclaredOrder ==
    (Resolved /\ \E k \in Elems(stats) : AtBoundary(gs, k))
    => check_ending(gs, max_turns) = FirstBoundary(gs, stats, 1)

\* C7: after a resolved decision with turn >= max_turns and no stat at a
\* boundary, the run has ended with RESONANCE when resonance_ready is in the
\* flag set and with HARMONY otherwise
C7_TurnLimit ==
    (/\ Resolved
     /\ gs.turn >= max_turns
     /\ \A k \in DOMAIN gs.stats : ~AtBoundary(gs, k))
    => /\ stage = "end"
       /\ ending = IF "resonance_ready" \in gs.flags THEN RESONANCE ELSE HARMONY

\* the turn-limit ending of C7 on the decks that declare the five stats
\* check_ending reads
TurnLimitOnCheckedDecks ==
    Elems(CheckedStats) \subseteq Elems(stats) => C7_TurnLimit

\* the effects of the branch the decision of this step applies
BranchEffects ==
    LET c == cards[first_card(card_id)]
    IN  IF event'.direction = "L" THEN c.effects_left ELSE c.effects_right

\* C8: a decision whose branch has a fixed delta d on a stat with value v
\* leaves the stat at 0 and ends the run with the stat's low outcome when
\* v + 1.5 * d <= 0, and at 100 with its high outcome when v + 1.5 * d >= 100
C8_OvershootEnds ==
    [][(event'.op = "decide" /\ gs'.turn = gs.turn + 1)
          => \A k \in DOMAIN BranchEffects \cap DOMAIN gs.stats :
                LET v == BranchEffects[k]
                IN  /\ (~v.range /\ gs.stats[k] + NUM * v.lo <= Val(LO))
                         => /\ gs'.stats[k] = Val(LO)
                            /\ stage' = "end"
                            /\ ending' = LowEnding(k)
                    /\ (~v.range /\ gs.stats[k] + NUM * v.lo >= Val(HI))
                         => /\ gs'.stats[k] = Val(HI)
                            /\ stage' = "end"
                            /\ ending' = HighEnding(k)]_vars

\* C9: a decide whose direction is neither "L" nor "R" changes nothing
C9_InvalidDirectionNoOp ==
    [][(event'.op = "decide" /\ event'.direction \notin {"L", "R"})
          => UNCHANGED <<gs, card_id, stage, ending>>]_vars

\* C10: every stat value is an integer
C10_IntegerStats ==
    \A k \in DOMAIN gs.stats : gs.stats[k] % DEN = 0

\* the rules of the deck format a deck can break
AllEffects ==
    UNION {{cards[i].effects_left, cards[i].effects_right} : i \in 1..Len(cards)}
UndeclaredKey == \E e \in AllEffects : \E k \in DOMAIN e : k \notin Elems(stats)
InvalidRange == \E e \in AllEffects : \E k \in DOMAIN e : e[k].range /\ e[k].lo > e[k].hi
DeckIsInvalid ==
    UndeclaredKey \/ InvalidRange \/ max_turns <= 0 \/ cards = <<>>

\* C11: on an invalid deck the start of the game fails before any card is
\* presented and before any decision is accepted
C11_InvalidDeckRejected ==
    DeckIsInvalid =>
        /\ raised # NotRaised
        /\ card_id = None
        /\ event.op = "init"

\* the part of C11 on undeclared stats: a decision is never resolved on a
\* deck with an effect on an undeclared stat
UndeclaredNeverPlayed == UndeclaredKey => ~Resolved

\* the card the last decide looked up and the branch it chose
DecidedCard == cards[first_card(event.card)]
DecidedEffects ==
    IF event.direction = "L" THEN DecidedCard.effects_left
    ELSE DecidedCard.effects_right
DecidedSet ==
    IF event.direction = "L" THEN DecidedCard.set_flags_left
    ELSE DecidedCard.set_flags_right
DecidedClear ==
    IF event.direction = "L" THEN DecidedCard.clear_flags_left
    ELSE DecidedCard.clear_flags_right

\* C12: a flag in both the set list and the clear list of the chosen branch
\* is absent from the flag set after the decision
C12_ClearWins ==
    Resolved =>
        \A f \in Elems(DecidedSet) \cap Elems(DecidedClear) : f \notin gs.flags

\* the left branch of card d (sets and clears tmp) was chosen as the third
\* decision of a run whose first decision chose d's right branch, which set
\* tmp (joy is back at 50 only after one right and one left on d): tmp was
\* present before the decision and is absent after it
C12_Witness ==
    /\ Resolved
    /\ event.card = "d" /\ event.direction = "L"
    /\ "tmp" \in Elems(DecidedSet) \cap Elems(DecidedClear)
    /\ gs.turn = 3
    /\ gs.stats["joy"] = Val(START)
    /\ "tmp" \notin gs.flags

\* a card has been presented by the last step: at the start, after restart
\* or after a decision that did not end the run
JustPresented ==
    /\ card_id # None
    /\ event.op \in {"init", "restart"} \/ NonTerminal

\* the game state eligible_cards read when that card was picked: the flags
\* of now, and the last_card_id from before next_card replaced it
StateAtPick ==
    [gs EXCEPT !.last_card_id = IF event.op = "decide" THEN event.card ELSE None]

FilteredAtPick == SelectSeq(cards, LAMBDA c : Passes(c, StateAtPick))

FlagsAllow(c) ==
    /\ \A f \in Elems(c.require_flags) : f \in gs.flags
    /\ \A f \in Elems(c.forbid_flags) : f \notin gs.flags

\* C13: a presented card has all its require_flags and none of its
\* forbid_flags in the flag set, unless no card other than the last one
\* passes the filter, and then the candidates are the full card list
C13_FlagGating ==
    JustPresented =>
        /\ FilteredAtPick # <<>> => FlagsAllow(picked)
        /\ FilteredAtPick = <<>> => eligible_cards(cards, StateAtPick) = cards
        /\ picked \in Elems(eligible_cards(cards, StateAtPick))

\* a card is presented while a card other than the last one is kept out by a
\* forbid flag that is set
C13_Witness ==
    /\ NonTerminal
    /\ card_id # None
    /\ FilteredAtPick # <<>>
    /\ \E i \in 1..Len(cards) :
          /\ cards[i].id # event.card
          /\ \E f \in Elems(cards[i].forbid_flags) : f \in gs.flags
    /\ FlagsAllow(picked)

\* eligible_cards is never empty on a deck with cards
EligibleNeverEmpty == cards # <<>> => eligible_cards(cards, gs) # <<>>

\* C14: on a deck with cards eligible_cards is never empty, and after every
\* resolved decision the stage holds the end screen or a presented card
C14_NeverStalls ==
    cards # <<>> =>
        /\ eligible_cards(cards, gs) # <<>>
        /\ Resolved => \/ stage = "end"
                       \/ stage = "card" /\ card_id # None

\* C15: pick_card can return every member of the eligible pool and nothing
\* else, whatever the declared weights, and the card presented is one of them
C15_PickFromPool ==
    /\ cards # <<>> => pick_card(cards, gs) = Elems(eligible_cards(cards, gs))
    /\ JustPresented => picked \in Elems(eligible_cards(cards, StateAtPick))

\* a card with a declared weight below 1 has been drawn
C15_Witness ==
    /\ JustPresented
    /\ picked.weight < 1
    /\ Len(eligible_cards(cards, StateAtPick)) > 1

\* C16: turn starts at 0, every decide step adds exactly 1 to it, and the
\* only other step, restart, sets it to 0
C16_TurnCounts ==
    /\ gs.turn = 0
    /\ [][IF event'.op = "decide"
          THEN gs'.turn = gs.turn + 1
          ELSE gs'.turn = 0]_vars

\* two decisions have been resolved, the second one ending the run
C16_Witness ==
    /\ Resolved
    /\ gs.turn = 2
    /\ stage = "end"

\* the branch of the presented card that the decide of this step chooses
StepCard == cards[first_card(card_id)]
StepEffects ==
    IF event'.direction = "L" THEN StepCard.effects_left ELSE StepCard.effects_right
StepFlags ==
    IF event'.direction = "L"
    THEN Elems(StepCard.set_flags_left) \cup Elems(StepCard.clear_flags_left)
    ELSE Elems(StepCard.set_flags_right) \cup Elems(StepCard.clear_flags_right)

\* C17: a decision keeps every stat that is no key of the chosen branch's
\* effects and the membership of every flag in neither of its flag lists,
\* and no step changes the card definitions, max_turns or the stat list
C17_Frame ==
    [][/\ (event'.op = "decide" /\ event'.direction \in {"L", "R"}
             /\ gs'.turn = gs.turn + 1)
          => /\ DOMAIN gs'.stats = DOMAIN gs.stats
             /\ \A k \in DOMAIN gs.stats \ DOMAIN StepEffects :
                   gs'.stats[k] = gs.stats[k]
             /\ \A f \in (gs.flags \cup gs'.flags) \ StepFlags :
                   f \in gs'.flags <=> f \in gs.flags
       /\ UNCHANGED <<cards, max_turns, stats>>]_vars

\* a decision whose branch has effects has left alone a stat and a flag that
\* earlier decisions had changed
C17_Witness ==
    /\ Resolved
    /\ event.direction \in {"L", "R"}
    /\ DOMAIN DecidedEffects # {}
    /\ \E k \in DOMAIN gs.stats \ DOMAIN DecidedEffects : gs.stats[k] # Val(START)
    /\ gs.flags \ (Elems(DecidedSet) \cup Elems(DecidedClear)) # {}

\* the engine is Playing: a card is presented, no ending is shown and the
\* app has not stopped
Playing == stage = "card" /\ card_id # None /\ raised = NotRaised

\* the invariant of the Playing state
PlayingInvariant ==
    (max_turns >= 1 /\ Playing) =>
        /\ \A k \in Elems(CheckedStats) \cap DOMAIN gs.stats :
              Val(0) < gs.stats[k] /\ gs.stats[k] < Val(100)
        /\ gs.turn < max_turns

\* C18: on a deck with max_turns >= 1, while Playing every checked stat is
\* strictly between 0 and 100 and turn < max_turns, and a run has reached
\* Ended once max_turns decisions are resolved
C18_PlayingAndBound ==
    max_turns >= 1 =>
        /\ PlayingInvariant
        /\ (Resolved /\ gs.turn >= max_turns) => stage = "end"

\* last_card_id, the presented card_id and the id of the picked card agree
PresentedIsLast ==
    Playing => gs.last_card_id = card_id /\ picked.id = card_id

\* C19: while Playing last_card_id is the id of the presented card, and the
\* card decide looks up by that id is the card pick_card selected
C19_DecideTargetsPicked ==
    Playing =>
        /\ gs.last_card_id = card_id
        /\ picked.id = card_id
        /\ cards[first_card(card_id)] = picked

====
